---- MODULE Spec2Model ----
(***************************************************************************)
(* SteeringLife: steering agents that eat food, avoid poison, reproduce    *)
(* and starve (src/src/main.rs, steering_agent.rs, food.rs).               *)
(*                                                                         *)
(* Numbers.  Every f32 of the program is a fixed-point integer in          *)
(* hundredths (2.5 is 250, hunger 128.0 is 12800, 0.2 is 20); a squared    *)
(* distance is in ten-thousandths (16.0 is 160000).  Products and          *)
(* quotients truncate toward zero.  A Vec2 is a record [nan, x, y]: nan    *)
(* is the not-a-number value glam produces when a zero vector is           *)
(* normalized; it propagates through every operation and makes every       *)
(* comparison false, as IEEE 754 does.  A scalar computed from a vector    *)
(* is a record [nan, v] for the same reason.                               *)
(***************************************************************************)
EXTENDS Integers, Sequences, FiniteSets

\* ------------------------------------------------------------------ bounds
\* Population minimums of the model.  The program sets 4 agents, 64 food
\* and 32 poison (main.rs 52, 64, 75); the model keeps the three counts as
\* small bounds.
MinAgents == 2
MinFood == 3
MinPoison == 2
\* Ticks (calls of update) explored from an initial state.
MaxTicks == 2
\* Births (successful gen_bool(0.001) draws) explored in one run: two, so
\* that one tick can have two newborns and a newborn can have a child.
MaxBirths == 2

\* ----------------------------------------------------------- f32 helpers
Abs(n) == IF n < 0 THEN -n ELSE n

\* a / b truncated toward zero, b > 0.
DivT(a, b) == IF a >= 0 THEN a \div b ELSE -((-a) \div b)

\* a * b of two hundredths values, in hundredths.
MulF(a, b) == DivT(a * b, 100)

RECURSIVE SqrtSearch(_, _, _)
SqrtSearch(n, lo, hi) ==
    IF lo >= hi THEN lo
    ELSE LET mid == (lo + hi + 1) \div 2
         IN IF mid * mid <= n THEN SqrtSearch(n, mid, hi)
                              ELSE SqrtSearch(n, lo, mid - 1)

\* Floor and ceiling of the square root of n, 0 <= n < 2^31.
SqrtFloor(n) == SqrtSearch(n, 0, IF n < 46340 THEN n ELSE 46340)
SqrtCeil(n) == LET r == SqrtFloor(n) IN IF r * r = n THEN r ELSE r + 1

\* Scalars that may be not-a-number.
F(v) == [nan |-> FALSE, v |-> v]
NaNF == [nan |-> TRUE, v |-> 0]
\* a < n and a > n for a scalar record a and a plain number n: false on NaN.
Lt(a, n) == ~a.nan /\ a.v < n
Gt(a, n) == ~a.nan /\ a.v > n

\* ------------------------------------------------------------ glam::Vec2
vec2(x, y) == [nan |-> FALSE, x |-> x, y |-> y]
NaNVec == [nan |-> TRUE, x |-> 0, y |-> 0]
ZeroVec == vec2(0, 0)

VAdd(a, b) == IF a.nan \/ b.nan THEN NaNVec ELSE vec2(a.x + b.x, a.y + b.y)
VSub(a, b) == IF a.nan \/ b.nan THEN NaNVec ELSE vec2(a.x - b.x, a.y - b.y)
\* v * k for a hundredths scalar k.
VMul(v, k) == IF v.nan THEN NaNVec ELSE vec2(MulF(v.x, k), MulF(v.y, k))

length_squared(v) == IF v.nan THEN NaNF ELSE F(v.x * v.x + v.y * v.y)
length(v) == IF v.nan THEN NaNF ELSE F(SqrtFloor(v.x * v.x + v.y * v.y))
distance_squared(a, b) == length_squared(VSub(a, b))

\* Vec2::normalize: self * (1 / length).  A zero vector gives 0 * infinity,
\* not-a-number in both components.  The result is a unit vector held in
\* ten-thousandths (so that a direction keeps four digits); a short vector
\* is scaled up before the division, which does not change its direction.
normalize(v) ==
    IF v.nan \/ (v.x = 0 /\ v.y = 0) THEN NaNVec
    ELSE LET small == Abs(v.x) < 300 /\ Abs(v.y) < 300
             sx == IF small THEN v.x * 100 ELSE v.x
             sy == IF small THEN v.y * 100 ELSE v.y
             len == SqrtCeil(sx * sx + sy * sy)
         IN vec2(DivT(sx * 10000, len), DivT(sy * 10000, len))

\* unit * s for a unit vector from normalize and a hundredths scalar s.
UnitMul(u, s) == IF u.nan THEN NaNVec ELSE vec2(DivT(u.x * s, 10000), DivT(u.y * s, 10000))

\* Vec2::clamp_length_max: a vector longer than max is rescaled to length
\* max; the comparison is false on not-a-number, which is returned as is.
clamp_length_max(v, max) ==
    IF Gt(length_squared(v), max * max)
    THEN LET len == SqrtCeil(v.x * v.x + v.y * v.y)
         IN vec2(DivT(v.x * max, len), DivT(v.y * max, len))
    ELSE v

\* steering_agent.rs map_range, on hundredths.
map_range(value, in_min, in_max, out_min, out_max) ==
    out_min + DivT((value - in_min) * (out_max - out_min), in_max - in_min)

\* ----------------------------------------------------- steering_agent.rs
\* Dna::into: the genome as an array; hue, the first field, goes last.
DnaToArray(d) ==
    << d.max_velocity, d.max_steer_force, d.arrive_threshold,
       d.food_detection_radius, d.food_force_multiplier,
       d.poison_detection_radius, d.poison_force_multiplier, d.hue >>

\* Mutant of DnaFromArray: the array is read in the order the struct
\* declares its fields, hue first.
DnaFromArray_declared(value) ==
    [ hue |-> value[1], max_velocity |-> value[2], max_steer_force |-> value[3],
      arrive_threshold |-> value[4], food_detection_radius |-> value[5],
      food_force_multiplier |-> value[6], poison_detection_radius |-> value[7],
      poison_force_multiplier |-> value[8] ]

\* Dna::from: the array back as a genome.
DnaFromArray(value) ==
    [ max_velocity |-> value[1], max_steer_force |-> value[2],
      arrive_threshold |-> value[3], food_detection_radius |-> value[4],
      food_force_multiplier |-> value[5], poison_detection_radius |-> value[6],
      poison_force_multiplier |-> value[7], hue |-> value[8] ]

\* rng.gen_bool(p), p in hundredths: never true at 0.0, always at 1.0.
gen_bool(p) == IF p = 0 THEN {FALSE} ELSE IF p = 100 THEN {TRUE} ELSE BOOLEAN

\* Mutant of mutate: the factor is drawn around 0 instead of around 1.
mutate_centered(d, rolls) ==
    LET dna_array == DnaToArray(d)
    IN DnaFromArray([i \in 1..8 |->
           IF rolls[i].hit THEN MulF(dna_array[i], rolls[i].factor - 100)
                           ELSE dna_array[i]])

\* Dna::mutate.  rolls[i] is what the random source gives for trait i:
\* hit is gen_bool(mutate_chance), factor is gen_range(0.93..1.07).
mutate(d, rolls) ==
    LET dna_array == DnaToArray(d)
    IN DnaFromArray([i \in 1..8 |->
           IF rolls[i].hit THEN MulF(dna_array[i], rolls[i].factor)
                           ELSE dna_array[i]])

\* The rolls of mutate update explores for a newborn: of every three
\* traits one is hit with the smallest factor, one is not hit, one is hit
\* with the largest factor.
MutationRolls ==
    { [i \in 1..8 |-> CASE i % 3 = 1 -> [hit |-> TRUE, factor |-> 93]
                        [] i % 3 = 2 -> [hit |-> FALSE, factor |-> 100]
                        [] OTHER -> [hit |-> TRUE, factor |-> 106]] }

\* Dna::random draws each trait from its range; the model explores the
\* genome at the low end of every range and the one at the high end.
DnaLow ==
    [ hue |-> 0, max_velocity |-> 250, max_steer_force |-> 8,
      arrive_threshold |-> 4800, food_detection_radius |-> 6400,
      food_force_multiplier |-> 75, poison_detection_radius |-> 6400,
      poison_force_multiplier |-> 75 ]
DnaHigh ==
    [ hue |-> 99, max_velocity |-> 499, max_steer_force |-> 19,
      arrive_threshold |-> 6399, food_detection_radius |-> 19199,
      food_force_multiplier |-> 124, poison_detection_radius |-> 19199,
      poison_force_multiplier |-> 124 ]
DnaRandom == {DnaLow, DnaHigh}
\* A genome Dna::random can draw whose 8 traits all differ.
DnaMixed ==
    [ hue |-> 50, max_velocity |-> 300, max_steer_force |-> 10,
      arrive_threshold |-> 5000, food_detection_radius |-> 7000,
      food_force_multiplier |-> 80, poison_detection_radius |-> 9000,
      poison_force_multiplier |-> 110 ]

\* Option<Vec2>.
None == [some |-> FALSE, at |-> ZeroVec]
Some(p) == [some |-> TRUE, at |-> p]

\* The age a new agent starts with (the field's Default).
age_default == 0

\* SteeringAgent::new: position and genome given, every other field at its
\* Default.  id is not a field of the program: it names the agent so that
\* properties can follow it through a tick.
SteeringAgentNew(id, position, dna) ==
    [ id |-> id, position |-> position, velocity |-> ZeroVec,
      acceleration |-> ZeroVec, hunger |-> 0, age |-> age_default,
      wander_target |-> None, dna |-> dna ]

apply_force(a, force) == [a EXCEPT !.acceleration = VAdd(@, force)]

min_velocity_threshold == 1

update_position(a) ==
    LET v1 == VAdd(a.velocity, a.acceleration)
        v2 == IF Lt(length(v1), min_velocity_threshold) THEN ZeroVec ELSE v1
        v3 == clamp_length_max(v2, a.dna.max_velocity)
    IN [a EXCEPT !.velocity = v3,
                 !.position = VAdd(a.position, v3),
                 !.acceleration = ZeroVec]

\* Mutant of update_hunger: the increment is left out.
update_hunger_none(a) == a

update_hunger(a) == [a EXCEPT !.hunger = @ + 20]

\* SteeringAgent::update.
agent_update(a) == update_hunger(update_position(a))

arrive(a, target, force_multiplier) ==
    LET position_difference == VSub(target, a.position)
        distance == length(position_difference)
        desired_velocity ==
            IF Lt(distance, a.dna.arrive_threshold)
            THEN UnitMul(normalize(position_difference),
                         map_range(distance.v, 0, a.dna.arrive_threshold,
                                   0, a.dna.max_velocity))
            ELSE UnitMul(normalize(position_difference), a.dna.max_velocity)
        steering_force ==
            clamp_length_max(VSub(desired_velocity, a.velocity), a.dna.max_steer_force)
    IN apply_force(a, VMul(steering_force, force_multiplier))

flee(a, target, force_multiplier) ==
    LET desired_velocity ==
            UnitMul(normalize(VSub(target, a.position)), a.dna.max_velocity)
        steering_force ==
            clamp_length_max(VSub(desired_velocity, a.velocity), a.dna.max_steer_force)
    IN apply_force(a, VMul(VMul(steering_force, -100), force_multiplier))

\* Mutant of wander: a target that was reached is not cleared.
wander_keep(a, pick) ==
    LET wander_target == IF a.wander_target.some THEN a.wander_target.at ELSE pick
    IN arrive([a EXCEPT !.wander_target = Some(wander_target)], wander_target, 100)

\* SteeringAgent::wander.  pick is the position get_random_position draws
\* when the agent has no wander target.
wander(a, pick) ==
    LET wander_target == IF a.wander_target.some THEN a.wander_target.at ELSE pick
        a1 == arrive([a EXCEPT !.wander_target = Some(wander_target)],
                     wander_target, 100)
    IN IF Lt(distance_squared(a1.position, wander_target), 160000)
       THEN [a1 EXCEPT !.wander_target = None]
       ELSE a1

\* ---------------------------------------------------------------- food.rs
\* Food::new.  hue is what the random source gives in the range the sign
\* of saturation selects.
FoodHues(saturation) == IF saturation < 0 THEN {5} ELSE {30}
FoodNew(position, saturation, hue) ==
    [ position |-> position, saturation |-> saturation,
      radius |-> MulF(Abs(saturation), 50), hue |-> hue ]

\* gen_range(15.0..25.0) of new_food and new_poison: the ends of the range.
Saturations == {1500, 2499}
new_food(position, saturation, hue) == FoodNew(position, saturation, hue)
\* Mutant of new_poison: the saturation keeps its sign.
new_poison_unsigned(position, saturation, hue) == FoodNew(position, saturation, hue)
new_poison(position, saturation, hue) == FoodNew(position, -saturation, hue)

\* ----------------------------------------------------------------- main.rs
\* What the window and the mouse give update: app.window_rect() and
\* app.mouse.position().
window_rect == [w |-> 20000, h |-> 20000]

\* Positions the model places things at: the origin, a point 3.0 from it
\* (inside every resource radius and inside wander's clearing distance), a
\* point 50.0 from it (outside every radius, inside every detection
\* radius) and a point 100.0 from it (outside the smallest detection
\* radius).
P0 == vec2(0, 0)
P1 == vec2(180, 240)
P2 == vec2(3000, 4000)
P3 == vec2(-8000, 6000)
Points == {P0, P1, P2, P3}

\* vec2(gen_range(-w/2..w/2), gen_range(-h/2..h/2)): the points of the
\* model inside the half-open ranges.
RandomPositions(rect) ==
    { p \in Points : /\ -(rect.w \div 2) <= p.x /\ p.x < rect.w \div 2
                     /\ -(rect.h \div 2) <= p.y /\ p.y < rect.h \div 2 }

\* The draws of get_random_position the model explores for wander: on the
\* agent, close to it, far from it.
WanderPicks == RandomPositions(window_rect) \ {P3}

MousePositions == {P0, P2}

\* update.since_last in hundredths of a second.
Deltas == {2}

max_hunger_before_dead == 12800
max_hunger_before_search == 2000

minimum_food_count == MinFood
minimum_poison_count == MinPoison
minimum_agent_count == MinAgents

\* Mutant of Remove: Vec::swap_remove, the last entry takes the place of
\* the removed one.
Remove_swap(seq, index) ==
    [i \in 1..(Len(seq) - 1) |-> IF i = index THEN seq[Len(seq)] ELSE seq[i]]

\* Vec::remove(index): the entries after index shift down.
Remove(seq, index) ==
    [i \in 1..(Len(seq) - 1) |-> IF i < index THEN seq[i] ELSE seq[i + 1]]

\* Mutant of ClosestScan: an entry as near as the closest so far replaces
\* it (<= for <).
RECURSIVE ClosestScan_last(_, _, _, _, _)
ClosestScan_last(position, max_distance_squared, food, index, closest) ==
    IF index > Len(food) THEN closest
    ELSE LET distance == distance_squared(position, food[index].position)
         IN IF /\ Lt(distance, max_distance_squared)
               /\ (~closest.found \/ Lt(distance, closest.distance + 1))
            THEN ClosestScan_last(position, max_distance_squared, food, index + 1,
                     [found |-> TRUE, index |-> index, food |-> food[index],
                      distance |-> distance.v])
            ELSE ClosestScan_last(position, max_distance_squared, food, index + 1, closest)

\* find_closest_food.  closest.found is FALSE while closest is None and
\* closest_distance is INFINITY; index counts from 1.
RECURSIVE ClosestScan(_, _, _, _, _)
ClosestScan(position, max_distance_squared, food, index, closest) ==
    IF index > Len(food) THEN closest
    ELSE LET distance == distance_squared(position, food[index].position)
         IN IF /\ Lt(distance, max_distance_squared)
               /\ (~closest.found \/ Lt(distance, closest.distance))
            THEN ClosestScan(position, max_distance_squared, food, index + 1,
                     [found |-> TRUE, index |-> index, food |-> food[index],
                      distance |-> distance.v])
            ELSE ClosestScan(position, max_distance_squared, food, index + 1, closest)

NoFood == [found |-> FALSE, index |-> 0, food |-> FoodNew(ZeroVec, 0, 0), distance |-> 0]

find_closest_food(position, max_distance, food) ==
    ClosestScan(position, max_distance * max_distance, food, 1, NoFood)

\* Mutant of TouchesPoison: the radius is not squared.
TouchesPoison_unsquared(agent, p) ==
    Lt(distance_squared(agent.position, p.position), p.radius)

\* main.rs 151: the agent is inside the poison's radius.
TouchesPoison(agent, p) ==
    Lt(distance_squared(agent.position, p.position), p.radius * p.radius)

\* main.rs 155: the poison is inside the agent's poison detection radius.
DetectsPoison(agent, p) ==
    Lt(distance_squared(agent.position, p.position),
       agent.dna.poison_detection_radius * agent.dna.poison_detection_radius)

\* Mutant of Starved: the threshold is one tick of hunger too high.
Starved_late(agent) == agent.hunger > max_hunger_before_dead + 20

\* Mutant of Hungry: food is sought at any hunger.
Hungry_always(agent) == agent.hunger >= 0

\* main.rs 164 and 166: the two hunger thresholds.
Starved(agent) == agent.hunger > max_hunger_before_dead
Hungry(agent) == agent.hunger > max_hunger_before_search

\* main.rs 172: the agent is inside the food's radius.
TouchesFood(agent, f) ==
    Lt(distance_squared(agent.position, f.position), f.radius * f.radius)

\* main.rs 174: agent.hunger -= food.saturation.
Eat(agent, f) == [agent EXCEPT !.hunger = @ - f.saturation]

\* Mutant of PoisonRetain: the pass stops looking at the first contact.
RECURSIVE PoisonRetain_first(_, _, _, _, _)
PoisonRetain_first(agent, poison, index, kept, touched_poison) ==
    IF index > Len(poison)
    THEN [agent |-> agent, poison |-> kept, touched_poison |-> touched_poison]
    ELSE LET p == poison[index]
         IN IF touched_poison
            THEN PoisonRetain_first(agent, poison, index + 1, Append(kept, p), TRUE)
            ELSE IF TouchesPoison(agent, p)
            THEN PoisonRetain_first(agent, poison, index + 1, kept, TRUE)
            ELSE PoisonRetain_first(
                     IF DetectsPoison(agent, p)
                     THEN flee(agent, p.position, agent.dna.poison_force_multiplier)
                     ELSE agent,
                     poison, index + 1, Append(kept, p), touched_poison)

\* model.poison.retain(..) of one agent: every poison in order; an
\* overlapped one is dropped and sets touched_poison, a detected one is
\* fled from and kept.
RECURSIVE PoisonRetain(_, _, _, _, _)
PoisonRetain(agent, poison, index, kept, touched_poison) ==
    IF index > Len(poison)
    THEN [agent |-> agent, poison |-> kept, touched_poison |-> touched_poison]
    ELSE LET p == poison[index]
         IN IF TouchesPoison(agent, p)
            THEN PoisonRetain(agent, poison, index + 1, kept, TRUE)
            ELSE PoisonRetain(
                     IF DetectsPoison(agent, p)
                     THEN flee(agent, p.position, agent.dna.poison_force_multiplier)
                     ELSE agent,
                     poison, index + 1, Append(kept, p), touched_poison)

\* Mutant of FollowMouse: hunger is not reset.
FollowMouse_hungry(agent, mouse) == agent_update(arrive(agent, mouse, 100))

\* The follow-mouse branch of the retain closure (main.rs 133-138).
FollowMouse(agent, mouse) ==
    agent_update([arrive(agent, mouse, 100) EXCEPT !.hunger = 0])

\* The food branch (main.rs 167-178): arrive at the closest food and eat
\* it when inside its radius, wander when no food is in range.
SeekFood(agent, food, pick) ==
    LET closest_food ==
            find_closest_food(agent.position, agent.dna.food_detection_radius, food)
    IN IF closest_food.found
       THEN LET a1 == arrive(agent, closest_food.food.position,
                             agent.dna.food_force_multiplier)
                eats == TouchesFood(a1, closest_food.food)
            IN [ agent |-> IF eats THEN Eat(a1, closest_food.food) ELSE a1,
                 food |-> IF eats THEN Remove(food, closest_food.index) ELSE food,
                 branch |-> IF eats THEN "eat" ELSE "seek",
                 index |-> closest_food.index ]
       ELSE [ agent |-> wander(agent, pick), food |-> food,
              branch |-> "wander", index |-> 0 ]

\* The retain closure of update for one agent, up to and including
\* agent.update() (main.rs 133-183).  The result holds the agent as it is
\* left, should_retain, the poison and food lists as they are left, and the
\* branch taken.
RetainBody(agent, poison, food, delta, follow_mouse, mouse, pick) ==
    IF follow_mouse
    THEN [ agent |-> FollowMouse(agent, mouse), should_retain |-> TRUE,
           poison |-> poison, food |-> food, branch |-> "follow",
           index |-> 0, counted |-> FALSE ]
    ELSE LET aged == [agent EXCEPT !.age = @ + delta]
             pass == PoisonRetain(aged, poison, 1, << >>, FALSE)
         IN IF pass.touched_poison
            THEN [ agent |-> agent_update(pass.agent), should_retain |-> FALSE,
                   poison |-> pass.poison, food |-> food, branch |-> "poisoned",
                   index |-> 0, counted |-> TRUE ]
            ELSE IF Starved(pass.agent)
            THEN [ agent |-> agent_update(pass.agent), should_retain |-> FALSE,
                   poison |-> pass.poison, food |-> food, branch |-> "starved",
                   index |-> 0, counted |-> TRUE ]
            ELSE IF Hungry(pass.agent)
            THEN LET r == SeekFood(pass.agent, food, pick)
                 IN [ agent |-> agent_update(r.agent), should_retain |-> TRUE,
                      poison |-> pass.poison, food |-> r.food, branch |-> r.branch,
                      index |-> r.index, counted |-> TRUE ]
            ELSE [ agent |-> agent_update(wander(pass.agent, pick)),
                   should_retain |-> TRUE, poison |-> pass.poison, food |-> food,
                   branch |-> "wander", index |-> 0, counted |-> TRUE ]

\* ------------------------------------------------------------------ state
\* Left out: the facing angle (direction), which only the drawing reads, the
\* debug flag of the D key, and seek, which update never calls.
VARIABLES
    agents,         \* model.agents
    food,           \* model.food
    poison,         \* model.poison
    follow_mouse,   \* model.follow_mouse
    average_age,    \* the "Average lifespan" update shows: [nan, num, den]
    pc,             \* "idle" between two calls of update, "retain" inside
                    \* model.agents.retain_mut
    idx,            \* retain_mut's position in model.agents
    newborns,       \* update's local newborns
    delta,          \* update's local delta
    mouse,          \* app.mouse.position() of this call
    age_sum,        \* update's local average_age before the division
    agent_count,    \* update's local agent_count
    ticks,          \* calls of update so far
    births,         \* newborns so far
    next_id,        \* the id the next new agent gets
    log,            \* this tick's closure calls, one record each
    fin             \* what the last call of update saw after the pass

vars == << agents, food, poison, follow_mouse, average_age, pc, idx, newborns,
           delta, mouse, age_sum, agent_count, ticks, births, next_id, log, fin >>

NoAverage == [nan |-> FALSE, num |-> 0, den |-> 1]
NoFin == [ ran |-> FALSE, follow |-> FALSE, kept |-> << >>, newborns |-> << >>,
           food |-> << >>, poison |-> << >> ]

\* Hunger values of the agents of an initial state: an agent that has not
\* eaten for 100, 640 or 641 ticks.
InitHungers == {2000, 12800, 12820}
\* Where the initial food and poison are.
InitFoodPositions == {P1, P3}
InitPoisonPositions == {P1, P3}

\* Agent number i of an initial state: it has lived hunger / 0.2 ticks of
\* 0.02 s; odd agents are at the origin with the low genome, even agents
\* 50.0 away with the high one.
InitAgent(i, hunger) ==
    [ SteeringAgentNew(i, IF i % 2 = 1 THEN P0 ELSE P2,
                       IF i % 2 = 1 THEN DnaLow ELSE DnaHigh)
      EXCEPT !.hunger = hunger, !.age = (hunger \div 20) * 2 ]

\* Resource number i of an initial state: odd ones drew the smallest
\* saturation, even ones the largest.
InitSaturation(i) == IF i % 2 = 1 THEN 1500 ELSE 2499

Init ==
    /\ \E hs \in [1..MinAgents -> InitHungers] :
          agents = [i \in 1..MinAgents |-> InitAgent(i, hs[i])]
    /\ \E ps \in [1..MinFood -> InitFoodPositions] :
          food = [i \in 1..MinFood |-> new_food(ps[i], InitSaturation(i), 30)]
    /\ \E ps \in [1..MinPoison -> InitPoisonPositions] :
          poison = [i \in 1..MinPoison |-> new_poison(ps[i], InitSaturation(i + 1), 5)]
    /\ follow_mouse = FALSE
    /\ average_age = NoAverage
    /\ pc = "idle"
    /\ idx = 0
    /\ newborns = << >>
    /\ delta = 0
    /\ mouse = ZeroVec
    /\ age_sum = 0
    /\ agent_count = 0
    /\ ticks = 0
    /\ births = 0
    /\ next_id = MinAgents + 1
    /\ log = << >>
    /\ fin = NoFin

\* The wander scenario: a Model of one new agent with hunger 25.0, no food
\* and no poison, follow_mouse off.
ScenarioHunger == 2500
ScenarioInit ==
    /\ \E p \in {P0, P2} : \E d \in DnaRandom :
          agents = << [SteeringAgentNew(1, p, d) EXCEPT !.hunger = ScenarioHunger] >>
    /\ food = << >>
    /\ poison = << >>
    /\ follow_mouse = FALSE
    /\ average_age = NoAverage
    /\ pc = "idle"
    /\ idx = 0
    /\ newborns = << >>
    /\ delta = 0
    /\ mouse = ZeroVec
    /\ age_sum = 0
    /\ agent_count = 0
    /\ ticks = 0
    /\ births = 0
    /\ next_id = 2
    /\ log = << >>
    /\ fin = NoFin

\* key_pressed: F toggles follow_mouse.  (D toggles a flag only draw
\* reads; any other key does nothing.)
KeyPressed ==
    /\ pc = "idle"
    /\ follow_mouse' = ~follow_mouse
    /\ UNCHANGED << agents, food, poison, average_age, pc, idx, newborns, delta,
                    mouse, age_sum, agent_count, ticks, births, next_id, log, fin >>

\* update, up to the call of retain_mut (main.rs 122-132).
UpdateBegin ==
    /\ pc = "idle"
    /\ ticks < MaxTicks
    /\ \E d \in Deltas : delta' = d
    /\ \E m \in (IF follow_mouse THEN MousePositions ELSE {ZeroVec}) : mouse' = m
    /\ pc' = "retain"
    /\ idx' = 1
    /\ newborns' = << >>
    /\ age_sum' = 0
    /\ agent_count' = 0
    /\ log' = << >>
    /\ fin' = NoFin
    /\ UNCHANGED << agents, food, poison, follow_mouse, average_age, ticks,
                    births, next_id >>

\* One call of the retain_mut closure (main.rs 132-193), for agents[idx].
\* pick is what get_random_position draws, child is gen_bool(0.001), rolls
\* what mutate draws.
RetainAgent ==
    /\ pc = "retain"
    /\ idx <= Len(agents)
    /\ \E pick \in WanderPicks :
       \E child \in (IF follow_mouse \/ births >= MaxBirths THEN {FALSE} ELSE BOOLEAN) :
       \E rolls \in (IF child THEN MutationRolls ELSE {<< >>}) :
       \E r \in {RetainBody(agents[idx], poison, food, delta, follow_mouse, mouse, pick)} :
          LET born == IF child
                      THEN << SteeringAgentNew(next_id, r.agent.position,
                                               mutate(r.agent.dna, rolls)) >>
                      ELSE << >>
          IN /\ agents' = IF r.should_retain
                          THEN [agents EXCEPT ![idx] = r.agent]
                          ELSE Remove(agents, idx)
             /\ idx' = IF r.should_retain THEN idx + 1 ELSE idx
             /\ poison' = r.poison
             /\ food' = r.food
             /\ age_sum' = IF r.counted THEN age_sum + (agents[idx].age + delta) ELSE age_sum
             /\ agent_count' = IF r.counted THEN agent_count + 1 ELSE agent_count
             /\ newborns' = newborns \o born
             /\ births' = births + Len(born)
             /\ next_id' = next_id + Len(born)
             /\ log' = Append(log,
                    [ before |-> agents[idx], after |-> r.agent,
                      should_retain |-> r.should_retain, branch |-> r.branch,
                      index |-> r.index, poison_before |-> poison,
                      poison_after |-> r.poison, food_before |-> food,
                      food_after |-> r.food, born |-> born, mouse |-> mouse,
                      pick |-> IF r.branch = "wander" /\ ~agents[idx].wander_target.some
                               THEN Some(pick) ELSE None ])
    /\ UNCHANGED << follow_mouse, average_age, pc, delta, mouse, ticks, fin >>

\* What the random source gives one slot of the three replenishing loops,
\* as far as the model explores it: for food, gen_bool(0.3) false, or true
\* with a small food near the origin or a large one far from it; for
\* poison and for agents two draws each.
FoodDraws ==
    { [gate |-> FALSE, food |-> FoodNew(ZeroVec, 0, 0)],
      [gate |-> TRUE, food |-> new_food(P1, 1500, 30)],
      [gate |-> TRUE, food |-> new_food(P3, 2499, 30)] }
PoisonDraws == { new_poison(P2, 1500, 5), new_poison(P3, 2499, 5) }
AgentDraws == { [position |-> P0, dna |-> DnaHigh], [position |-> P2, dna |-> DnaLow] }

\* The entries one replenishing loop pushes, in order.
RECURSIVE Pushed(_, _)
Pushed(draws, i) ==
    IF i > Len(draws) THEN << >>
    ELSE (IF draws[i].gate THEN << draws[i].food >> ELSE << >>) \o Pushed(draws, i + 1)

\* Mutants of Difference: one slot too few, one slot too many.
Difference_short(minimum, len) == IF len < minimum THEN minimum - len - 1 ELSE 0
Difference_long(minimum, len) == IF len < minimum THEN minimum - len + 1 ELSE 0

\* The number of slots a replenishing loop runs through (main.rs 202-203,
\* 216-217, 228-229).
Difference(minimum, len) == IF len < minimum THEN minimum - len ELSE 0

\* Mutant of Appended: the newborns are put in front.
Appended_front(list, more) == more \o list

\* model.agents.append(&mut newborns) (main.rs 197).
Appended(list, more) == list \o more

\* update after retain_mut (main.rs 195-238): the division, the newborns
\* appended, food, poison and agents replenished.
UpdateFinish ==
    /\ pc = "retain"
    /\ idx > Len(agents)
    /\ LET all == Appended(agents, newborns)
       IN /\ average_age' = IF agent_count = 0
                            THEN [nan |-> TRUE, num |-> 0, den |-> 1]
                            ELSE [nan |-> FALSE, num |-> age_sum, den |-> agent_count]
          /\ \E fd \in [1..Difference(minimum_food_count, Len(food)) -> FoodDraws] :
                food' = food \o Pushed(fd, 1)
          /\ \E pd \in [1..Difference(minimum_poison_count, Len(poison)) -> PoisonDraws] :
                poison' = poison \o pd
          /\ \E ad \in [1..Difference(minimum_agent_count, Len(all)) -> AgentDraws] :
                /\ agents' = all \o [i \in 1..Len(ad) |->
                       SteeringAgentNew(next_id + i - 1, ad[i].position, ad[i].dna)]
                /\ next_id' = next_id + Len(ad)
          /\ fin' = [ ran |-> TRUE, follow |-> follow_mouse, kept |-> agents,
                      newborns |-> newborns, food |-> food, poison |-> poison ]
    /\ pc' = "idle"
    /\ idx' = 0
    /\ newborns' = << >>
    /\ delta' = 0
    /\ mouse' = ZeroVec
    /\ age_sum' = 0
    /\ agent_count' = 0
    /\ ticks' = ticks + 1
    /\ UNCHANGED << follow_mouse, births, log >>

Next == KeyPressed \/ UpdateBegin \/ RetainAgent \/ UpdateFinish

Spec == Init /\ [][Next]_vars

\* The same program started in the wander scenario.
ScenarioSpec == ScenarioInit /\ [][Next]_vars

\* ------------------------------------------------- the functions, called
\* mutate, find_closest_food and the poison pass applied once each to
\* inputs drawn from small sets: agents[1] is the agent (its genome the
\* receiver of mutate), food and poison the lists, log the call and what
\* it returned, newborns the agent update makes of a mutated genome.

\* Resource positions of the inputs: every list of up to three points.
CallPositions == UNION { [1..n -> Points] : n \in 0..3 }
\* The agent's position: the origin, 50.0 from it, or not a number (what
\* arrive at distance 0 leaves behind).
CallAgentPositions == {P0, P2, NaNVec}

\* What the random source gives mutate: which traits gen_bool hits, and
\* the factor gen_range(0.93..1.07) gives a hit trait.
HitPatterns ==
    { [i \in 1..8 |-> FALSE], [i \in 1..8 |-> TRUE],
      [i \in 1..8 |-> i % 2 = 1], [i \in 1..8 |-> i % 2 = 0] }
Factors == {93, 106}
RollsOf(mutate_chance) ==
    { [i \in 1..8 |-> [hit |-> h[i], factor |-> IF h[i] THEN f ELSE 100]] :
          h \in { hp \in HitPatterns : \A i \in 1..8 : hp[i] \in gen_bool(mutate_chance) },
          f \in Factors }
\* mutate_chance: 0.0, the 0.75 of update, 1.0.
MutateChances == {0, 75, 100}

CallInit ==
    /\ \E p \in CallAgentPositions : \E d \in DnaRandom \cup {DnaMixed} :
          agents = << SteeringAgentNew(1, p, d) >>
    /\ \E ps \in CallPositions :
          /\ food = [i \in 1..Len(ps) |-> new_food(ps[i], InitSaturation(i), 30)]
          /\ poison = [i \in 1..Len(ps) |-> new_poison(ps[i], InitSaturation(i + 1), 5)]
    /\ follow_mouse = FALSE
    /\ average_age = NoAverage
    /\ pc = "idle"
    /\ idx = 0
    /\ newborns = << >>
    /\ delta = 0
    /\ mouse = ZeroVec
    /\ age_sum = 0
    /\ agent_count = 0
    /\ ticks = 0
    /\ births = 0
    /\ next_id = 2
    /\ log = << >>
    /\ fin = NoFin

\* agent.dna.mutate(mutate_chance, rng), and the agent made of the result
\* (main.rs 188-189).
MutateCall ==
    /\ log = << >>
    /\ \E mutate_chance \in MutateChances :
       \E rolls \in RollsOf(mutate_chance) :
          LET mutated_dna == mutate(agents[1].dna, rolls)
          IN /\ newborns' = << SteeringAgentNew(next_id, agents[1].position, mutated_dna) >>
             /\ log' = << [ op |-> "mutate", mutate_chance |-> mutate_chance,
                            rolls |-> rolls, receiver |-> agents[1].dna,
                            result |-> mutated_dna ] >>
    /\ next_id' = next_id + 1
    /\ UNCHANGED << agents, food, poison, follow_mouse, average_age, pc, idx,
                    delta, mouse, age_sum, agent_count, ticks, births, fin >>

\* find_closest_food(agent.position, agent.dna.food_detection_radius,
\* &model.food) (main.rs 167).
FindCall ==
    /\ log = << >>
    /\ log' = << [ op |-> "find", position |-> agents[1].position,
                   max_distance |-> agents[1].dna.food_detection_radius,
                   food |-> food,
                   result |-> find_closest_food(agents[1].position,
                                  agents[1].dna.food_detection_radius, food) ] >>
    /\ UNCHANGED << agents, food, poison, follow_mouse, average_age, pc, idx,
                    newborns, delta, mouse, age_sum, agent_count, ticks, births,
                    next_id, fin >>

\* model.poison.retain(..) for the agent (main.rs 147-160).
PoisonCall ==
    /\ log = << >>
    /\ \E r \in {PoisonRetain(agents[1], poison, 1, << >>, FALSE)} :
          /\ agents' = << r.agent >>
          /\ poison' = r.poison
          /\ log' = << [ op |-> "poison", before |-> agents[1],
                         poison_before |-> poison, result |-> r ] >>
    /\ UNCHANGED << food, follow_mouse, average_age, pc, idx, newborns, delta,
                    mouse, age_sum, agent_count, ticks, births, next_id, fin >>

CallNext == MutateCall \/ FindCall \/ PoisonCall

CallSpec == CallInit /\ [][CallNext]_vars

\* ----------------------------------------------------------- properties
\* A call of update has returned: log holds one record for each agent that
\* was live when it began, fin what it saw after the pass.
TickDone == pc = "idle" /\ fin.ran
LiveIds == { agents[i].id : i \in 1..Len(agents) }
Entries == { log[i] : i \in 1..Len(log) }

\* seq without its entry at index, said without Remove.
IsWithout(short, seq, index) ==
    /\ Len(short) = Len(seq) - 1
    /\ \A j \in 1..Len(short) : short[j] = (IF j < index THEN seq[j] ELSE seq[j + 1])

\* long is seq with entries pushed at its end.
IsPrefix(seq, long) ==
    /\ Len(seq) <= Len(long)
    /\ \A j \in 1..Len(seq) : long[j] = seq[j]

\* C1 as stated: an agent whose hunger is above 128.0 when a tick begins is
\* not live when the tick ends, follow-target mode on or off.
C1_StarvedRemovedAlways ==
    TickDone =>
        \A e \in Entries : e.before.hunger > 12800 => e.before.id \notin LiveIds

\* C1 amended: in a tick with follow-target mode off, an agent whose hunger
\* is above 128.0 when the tick begins is not live when the tick ends.
C1_StarvedRemoved ==
    (TickDone /\ ~fin.follow) =>
        \A e \in Entries : e.before.hunger > 12800 => e.before.id \notin LiveIds

\* A tick with follow-target mode off has ended in which an agent with
\* hunger above 128.0 touched no poison and is gone.
C1_Witness ==
    /\ TickDone /\ ~fin.follow
    /\ \E e \in Entries : /\ e.before.hunger > 12800
                          /\ e.branch = "starved"
                          /\ e.before.id \notin LiveIds

\* The position of e's agent is strictly inside the radius of p.
InsideRadius(position, p) ==
    /\ ~position.nan
    /\ (position.x - p.position.x) * (position.x - p.position.x)
       + (position.y - p.position.y) * (position.y - p.position.y)
       < p.radius * p.radius

PoisonInside(e, list) ==
    { j \in 1..Len(list) : InsideRadius(e.before.position, list[j]) }

\* C2 as stated: an agent that is strictly inside a live poison's radius
\* when it is processed is removed in that tick, and no poison it is
\* inside of is left in the poison list by its pass.
C2_PoisonedRemovedAlways ==
    \A e \in Entries :
        PoisonInside(e, e.poison_before) # {} =>
            /\ ~e.should_retain
            /\ PoisonInside(e, e.poison_after) = {}
            /\ (TickDone => e.before.id \notin LiveIds)

\* C2 amended: with follow-target mode off, an agent that is strictly
\* inside a live poison's radius when it is processed is removed in that
\* tick, and no poison it is inside of is left in the poison list by its
\* pass; the poisons it is not inside of are kept, in order.
C2_PoisonedRemoved ==
    \A e \in Entries :
        (e.branch # "follow" /\ PoisonInside(e, e.poison_before) # {}) =>
            /\ ~e.should_retain
            /\ PoisonInside(e, e.poison_after) = {}
            /\ Len(e.poison_after) =
                   Len(e.poison_before) - Cardinality(PoisonInside(e, e.poison_before))
            /\ (TickDone => e.before.id \notin LiveIds)

\* An agent with hunger below the starvation threshold was inside a poison
\* and is gone with it, while a poison it was not inside of is still there.
C2_Witness ==
    /\ TickDone
    /\ \E e \in Entries : /\ e.branch = "poisoned"
                          /\ e.before.hunger <= 12800
                          /\ PoisonInside(e, e.poison_before) # {}
                          /\ Len(e.poison_after) > 0
                          /\ e.before.id \notin LiveIds

\* Squared distance of food entry j to the agent of e, and whether it is
\* within the agent's food detection radius.
FoodDistance(e, j) ==
    (e.before.position.x - e.food_before[j].position.x)
        * (e.before.position.x - e.food_before[j].position.x)
    + (e.before.position.y - e.food_before[j].position.y)
        * (e.before.position.y - e.food_before[j].position.y)
FoodInRange(e, j) ==
    FoodDistance(e, j) < e.before.dna.food_detection_radius
                         * e.before.dna.food_detection_radius

\* C3: an agent that eats has its hunger lowered by exactly the potency of
\* the food at the index the nearest-food search returned (and raised by
\* the tick's 0.2); that index is the lowest one of a nearest food in
\* range; the food list afterwards is the list before without that entry,
\* the others unchanged and in order.
C3_EatRemovesThatFood ==
    \A e \in Entries :
        e.branch = "eat" =>
            /\ e.index \in 1..Len(e.food_before)
            /\ ~e.before.position.nan
            /\ FoodInRange(e, e.index)
            /\ \A j \in 1..Len(e.food_before) :
                   FoodInRange(e, j) =>
                       \/ FoodDistance(e, e.index) < FoodDistance(e, j)
                       \/ (FoodDistance(e, e.index) = FoodDistance(e, j) /\ e.index <= j)
            /\ e.after.hunger = e.before.hunger - e.food_before[e.index].saturation + 20
            /\ IsWithout(e.food_after, e.food_before, e.index)

\* An agent ate a food that was neither the last nor the only one in
\* range: another food at the same distance came after it in the list.
C3_Witness ==
    \E e \in Entries :
        /\ e.branch = "eat"
        /\ Len(e.food_before) = 3
        /\ e.index < Len(e.food_before)
        /\ \E j \in (e.index + 1)..Len(e.food_before) :
               /\ FoodDistance(e, j) = FoodDistance(e, e.index)
               /\ e.food_before[j] # e.food_before[e.index]

\* C4: after update's replenishing, a poison list that was below
\* minimum_poison_count has exactly that many entries, and so has an agent
\* list (survivors and newborns) that was below minimum_agent_count; a
\* list at or above its minimum is left as it was; nothing is removed.
C4_PoisonAndAgentsRefilled ==
    TickDone =>
        LET all == fin.kept \o fin.newborns
        IN /\ IsPrefix(fin.poison, poison)
           /\ IsPrefix(all, agents)
           /\ Len(fin.poison) < MinPoison => Len(poison) = MinPoison
           /\ Len(fin.poison) >= MinPoison => poison = fin.poison
           /\ Len(all) < MinAgents => Len(agents) = MinAgents
           /\ Len(all) >= MinAgents => agents = all

\* A tick ended whose pass had removed every poison and every agent, and
\* both lists are back at their minimum.
C4_Witness ==
    /\ TickDone
    /\ Len(fin.poison) = 0
    /\ Len(fin.kept \o fin.newborns) = 0
    /\ Len(poison) = MinPoison
    /\ Len(agents) = MinAgents

\* C5: the food list after update's replenishing is the list before it
\* with between 0 and N entries pushed at its end, N the number missing to
\* minimum_food_count (0 when the list is at or above it).
C5_FoodRefilledPartly ==
    TickDone =>
        /\ IsPrefix(fin.food, food)
        /\ Len(food) <= (IF Len(fin.food) < MinFood THEN MinFood ELSE Len(fin.food))

\* A tick ended with two food missing of which one was pushed.
C5_Witness ==
    /\ TickDone
    /\ Len(fin.food) = MinFood - 2
    /\ Len(food) = MinFood - 1

\* C6: in a tick with follow-target mode on, every agent is kept, leaves
\* the closure with hunger 0.2 (zero when update adds its 0.2) whatever it
\* was, with its age and wander target as they were, and with the poison
\* and food lists as they were; no newborn is spawned.
C6_FollowSkipsAll ==
    \A e \in Entries :
        e.branch = "follow" =>
            /\ e.should_retain
            /\ e.after.hunger = 20
            /\ e.after.age = e.before.age
            /\ e.after.wander_target = e.before.wander_target
            /\ e.after.id = e.before.id
            /\ e.after.dna = e.before.dna
            /\ e.poison_after = e.poison_before
            /\ e.food_after = e.food_before
            /\ e.born = << >>
            /\ (TickDone => /\ fin.follow
                            /\ fin.newborns = << >>
                            /\ Len(fin.kept) = Len(log)
                            /\ e.after \in { agents[i] : i \in 1..Len(agents) })

\* A tick with follow-target mode on has ended in which a starving agent
\* inside a poison, with food in reach, is still live.
C6_Witness ==
    /\ TickDone
    /\ \E e \in Entries : /\ e.branch = "follow"
                          /\ e.before.hunger > 12800
                          /\ PoisonInside(e, e.poison_before) # {}
                          /\ \E j \in 1..Len(e.food_before) :
                                 InsideRadius(e.before.position, e.food_before[j])
                          /\ e.before.id \in LiveIds

\* Sum and number of the ages, after the tick, of the agents of log[1..i]
\* that were processed with follow-target mode off and kept.
RECURSIVE SurvivorAges(_)
SurvivorAges(i) ==
    IF i = 0 THEN [sum |-> 0, n |-> 0]
    ELSE LET rest == SurvivorAges(i - 1)
         IN IF log[i].should_retain /\ log[i].branch # "follow"
            THEN [sum |-> rest.sum + log[i].after.age, n |-> rest.n + 1]
            ELSE rest

\* C7: the age statistic a tick exposes is the mean age of the agents that
\* were processed with follow-target mode off and are still live when the
\* tick ends (0 / 0, not a number, when there is none).
C7_MeanAgeOfSurvivors ==
    TickDone =>
        LET s == SurvivorAges(Len(log))
        IN IF s.n = 0 THEN average_age.nan
           ELSE /\ ~average_age.nan
                /\ average_age.num * s.n = s.sum * average_age.den

\* C8: no live agent has a not-a-number position, velocity or
\* acceleration: arrive at distance 0 adds a zero force.
C8_NoNaN ==
    \A i \in 1..Len(agents) :
        /\ ~agents[i].position.nan
        /\ ~agents[i].velocity.nan
        /\ ~agents[i].acceleration.nan

\* C9 as stated: every live agent's hunger is non-negative.
C9_HungerNonNegative == \A i \in 1..Len(agents) : agents[i].hunger >= 0

\* C9 amended: every live agent's hunger is at least -4.8, that is
\* 20.0 - 25.0 + 0.2: the search threshold less the bound of a food's
\* potency, plus one tick.
C9_HungerAboveFloor == \A i \in 1..Len(agents) : agents[i].hunger >= -480

\* A live agent has a negative hunger after eating.
C9_Witness ==
    /\ TickDone
    /\ \E e \in Entries : /\ e.branch = "eat"
                          /\ e.after.hunger < 0
                          /\ e.after \in { agents[i] : i \in 1..Len(agents) }

\* The live agent with the given id.
Live(id) == CHOOSE a \in { agents[i] : i \in 1..Len(agents) } : a.id = id

\* C10 as stated: an agent that is live before and after a tick and did
\* not eat in it has a greater hunger after it than before it.
C10_HungerGrowsUnlessAte ==
    TickDone =>
        \A e \in Entries :
            (e.before.id \in LiveIds /\ e.branch # "eat") =>
                Live(e.before.id).hunger > e.before.hunger

\* C10 amended: an agent that is live before and after a tick, did not eat
\* in it and was not processed in follow-target mode has a greater hunger
\* after it than before it, by 0.2; an agent that ate has a smaller one,
\* and one processed in follow-target mode has 0.2.
C10_HungerGrowsUnlessAteOrFollowed ==
    TickDone =>
        \A e \in Entries :
            e.before.id \in LiveIds =>
                /\ e.branch \notin {"eat", "follow"} =>
                       /\ Live(e.before.id).hunger > e.before.hunger
                       /\ Live(e.before.id).hunger = e.before.hunger + 20
                /\ e.branch = "eat" => Live(e.before.id).hunger < e.before.hunger
                /\ e.branch = "follow" => Live(e.before.id).hunger = 20

\* A tick has ended in which one agent that sought food without reaching
\* it and one that wandered are both still live, each 0.2 hungrier.
C10_Witness ==
    /\ TickDone
    /\ \E e \in Entries : /\ e.branch = "seek"
                          /\ e.before.id \in LiveIds
                          /\ Live(e.before.id).hunger = e.before.hunger + 20
    /\ \E e \in Entries : /\ e.branch = "wander"
                          /\ e.before.id \in LiveIds
                          /\ Live(e.before.id).hunger = e.before.hunger + 20

\* radius is half the size of potency, to the hundredth the model keeps.
HalfOf(radius, potency) ==
    /\ 2 * radius <= Abs(potency)
    /\ Abs(potency) - 2 * radius < 2

\* C12: every live food has a potency in [15, 25), every live poison one
\* in (-25, -15], and every resource's radius is half the size of its
\* potency, so positive.
C12_PotencyAndRadius ==
    /\ \A i \in 1..Len(food) :
           /\ food[i].saturation >= 1500 /\ food[i].saturation < 2500
           /\ HalfOf(food[i].radius, food[i].saturation)
           /\ food[i].radius > 0
    /\ \A i \in 1..Len(poison) :
           /\ poison[i].saturation > -2500 /\ poison[i].saturation <= -1500
           /\ HalfOf(poison[i].radius, poison[i].saturation)
           /\ poison[i].radius > 0

\* A tick has ended that pushed a new poison, and both lists hold the
\* smallest and the largest potency.
C12_Witness ==
    /\ TickDone
    /\ Len(poison) > Len(fin.poison)
    /\ \E i, j \in 1..Len(food) :
           food[i].saturation = 1500 /\ food[j].saturation = 2499
    /\ \E i, j \in 1..Len(poison) :
           poison[i].saturation = -1500 /\ poison[j].saturation = -2499

\* C13: when a tick has ended, every live agent's speed is at most its
\* max_velocity trait.
C13_SpeedAtMostMax ==
    TickDone =>
        \A i \in 1..Len(agents) :
            /\ ~agents[i].velocity.nan
            /\ agents[i].velocity.x * agents[i].velocity.x
               + agents[i].velocity.y * agents[i].velocity.y
               <= agents[i].dna.max_velocity * agents[i].dna.max_velocity

\* C15: an agent that takes a removal branch is left as it was (update is
\* not applied: hunger, velocity and position unchanged) and spawns
\* nothing, so every newborn's parent is live when the tick ends.
C15_RemovedUntouched ==
    \A e \in Entries :
        /\ ~e.should_retain =>
               /\ e.after.hunger = e.before.hunger
               /\ e.after.velocity = e.before.velocity
               /\ e.after.position = e.before.position
               /\ e.born = << >>
        /\ (TickDone /\ e.born # << >>) => e.before.id \in LiveIds

\* The newborns the closure calls log[1..i] pushed, in the order of the
\* calls, and the agents those calls kept, as they were left.
RECURSIVE BornUpTo(_)
BornUpTo(i) == IF i = 0 THEN << >> ELSE BornUpTo(i - 1) \o log[i].born
RECURSIVE KeptUpTo(_)
KeptUpTo(i) ==
    IF i = 0 THEN << >>
    ELSE KeptUpTo(i - 1) \o (IF log[i].should_retain THEN << log[i].after >> ELSE << >>)

\* n is as SteeringAgent::new made it: not aged, not moved, not updated.
Untouched(n) == n = SteeringAgentNew(n.id, n.position, n.dna)

\* C16: while the pass runs the newborns are in a list of their own, in
\* the order their parents were processed, none of them in the live list,
\* none of them processed, each as it was made; when the tick has ended
\* the live list is the survivors, then the newborns in that order and as
\* they were made, then the agents replenishment pushed, and replenishment
\* counted the newborns.
C16_NewbornsAfterThePass ==
    /\ pc = "retain" =>
           /\ newborns = BornUpTo(Len(log))
           /\ \A j \in 1..Len(newborns) :
                  /\ newborns[j].id \notin LiveIds
                  /\ newborns[j].id \notin { e.before.id : e \in Entries }
                  /\ Untouched(newborns[j])
    /\ TickDone =>
           /\ fin.newborns = BornUpTo(Len(log))
           /\ fin.kept = KeptUpTo(Len(log))
           /\ IsPrefix(fin.kept \o fin.newborns, agents)
           /\ \A j \in 1..Len(fin.newborns) :
                  /\ Untouched(fin.newborns[j])
                  /\ fin.newborns[j].id \notin { e.before.id : e \in Entries }
           /\ Len(agents) = (IF Len(fin.kept) + Len(fin.newborns) < MinAgents
                             THEN MinAgents
                             ELSE Len(fin.kept) + Len(fin.newborns))

\* A tick has ended in which one parent survived and two agents had a
\* child each: the live list is the survivor and the two newborns, the
\* first parent's child first, and replenishment pushed nothing.
C16_Witness ==
    /\ TickDone
    /\ Len(log) = 2
    /\ Len(log[1].born) = 1
    /\ Len(log[2].born) = 1
    /\ Len(fin.kept) = 1
    /\ agents = << fin.kept[1], log[1].born[1], log[2].born[1] >>
    /\ log[1].born[1].position # log[2].born[1].position

\* C19: between two ticks the poison list has exactly
\* minimum_poison_count entries, the food list at most
\* minimum_food_count, the agent list at least minimum_agent_count.
C19_CountsBetweenTicks ==
    pc = "idle" =>
        /\ Len(poison) = minimum_poison_count
        /\ Len(food) <= minimum_food_count
        /\ Len(agents) >= minimum_agent_count

\* A tick has ended that left the food list short of its minimum and the
\* agent list above its minimum, the poison list at its minimum.
C19_Witness ==
    /\ TickDone
    /\ Len(poison) = minimum_poison_count
    /\ Len(food) < minimum_food_count
    /\ Len(agents) > minimum_agent_count

\* The first tick of the wander scenario has ended, follow-target mode
\* off: log[1] is the call of the closure for the one agent.
ScenarioTickDone == TickDone /\ ticks = 1 /\ ~fin.follow /\ Len(log) = 1

\* p is inside the bounds get_random_position draws from.
InsideBounds(p) ==
    /\ ~p.nan
    /\ -(window_rect.w \div 2) <= p.x /\ p.x < window_rect.w \div 2
    /\ -(window_rect.h \div 2) <= p.y /\ p.y < window_rect.h \div 2

\* Squared distance of two positions that are numbers.
SquaredDistance(p, q) == (p.x - q.x) * (p.x - q.x) + (p.y - q.y) * (p.y - q.y)

\* C14 as stated: after the scenario's tick the agent has a wander target
\* inside the bounds and is not where it was, whatever target was drawn.
C14_TargetSetAndMoved ==
    ScenarioTickDone =>
        /\ log[1].before.id \in LiveIds
        /\ Live(log[1].before.id).wander_target.some
        /\ InsideBounds(Live(log[1].before.id).wander_target.at)
        /\ Live(log[1].before.id).position # log[1].before.position

\* C14 amended: in the scenario's tick a target inside the bounds is
\* drawn; when it is at squared distance 16.0 or more from the agent, the
\* agent has that target after the tick and is at another position; when
\* it is nearer, the agent has no wander target after the tick.
C14_TargetSetUnlessNear ==
    ScenarioTickDone =>
        /\ log[1].before.id \in LiveIds
        /\ log[1].branch = "wander"
        /\ log[1].pick.some
        /\ InsideBounds(log[1].pick.at)
        /\ IF SquaredDistance(log[1].before.position, log[1].pick.at) >= 160000
           THEN /\ Live(log[1].before.id).wander_target = Some(log[1].pick.at)
                /\ ~Live(log[1].before.id).position.nan
                /\ Live(log[1].before.id).position # log[1].before.position
           ELSE Live(log[1].before.id).wander_target = None

\* The scenario's tick has ended with a target 50.0 away drawn, kept as
\* the agent's wander target, and the agent moved.
C14_Witness ==
    /\ ScenarioTickDone
    /\ log[1].before.hunger = ScenarioHunger
    /\ log[1].food_before = << >>
    /\ log[1].poison_before = << >>
    /\ log[1].pick.some
    /\ SquaredDistance(log[1].before.position, log[1].pick.at) = 25000000
    /\ Live(log[1].before.id).wander_target = log[1].pick
    /\ Live(log[1].before.id).position # log[1].before.position

\* The names of the 8 traits of a genome.
Traits ==
    { "hue", "max_velocity", "max_steer_force", "arrive_threshold",
      "food_detection_radius", "food_force_multiplier",
      "poison_detection_radius", "poison_force_multiplier" }

\* C11: mutate with mutate_chance 0.0 returns a genome equal to the
\* receiver in each of the 8 traits (the way through the array puts every
\* trait back in its own field), and the receiver is as it was.
C11_MutateZeroIsIdentity ==
    \A e \in Entries :
        (e.op = "mutate" /\ e.mutate_chance = 0) =>
            /\ DOMAIN e.result = Traits
            /\ \A t \in Traits : e.result[t] = e.receiver[t]
            /\ agents[1].dna = e.receiver
            /\ newborns[1].dna = e.receiver

\* mutate was called with mutate_chance 0.0 on a genome whose traits are
\* all different from each other, and returned it.
C11_Witness ==
    \E e \in Entries :
        /\ e.op = "mutate"
        /\ e.mutate_chance = 0
        /\ \A s, t \in Traits : s # t => e.receiver[s] # e.receiver[t]
        /\ e.result = e.receiver

\* The indices of the food entries of the call e whose squared distance to
\* the position is less than max_distance squared (none when the position
\* is not a number), and the squared distance of entry j.
FindInRange(e) ==
    { j \in 1..Len(e.food) :
          /\ ~e.position.nan
          /\ SquaredDistance(e.position, e.food[j].position)
             < e.max_distance * e.max_distance }
FindDistance(e, j) == SquaredDistance(e.position, e.food[j].position)

\* C17: find_closest_food returns None exactly when no food entry is in
\* range; otherwise the index and the value of an entry in range that no
\* entry in range is nearer than, the lowest index among those as near.
C17_ClosestFood ==
    \A e \in Entries :
        e.op = "find" =>
            /\ e.result.found <=> FindInRange(e) # {}
            /\ e.result.found =>
                   /\ e.result.index \in FindInRange(e)
                   /\ e.result.food = e.food[e.result.index]
                   /\ \A j \in FindInRange(e) :
                          /\ FindDistance(e, e.result.index) <= FindDistance(e, j)
                          /\ FindDistance(e, j) = FindDistance(e, e.result.index)
                                 => e.result.index <= j

\* find_closest_food returned the second of three entries in range: the
\* first is farther, the third as near and another food.
C17_Witness ==
    \E e \in Entries :
        /\ e.op = "find"
        /\ e.result.found
        /\ Len(e.food) = 3
        /\ e.result.index = 2
        /\ 1 \in FindInRange(e)
        /\ FindDistance(e, 1) > FindDistance(e, 2)
        /\ FindDistance(e, 3) = FindDistance(e, 2)
        /\ e.food[3] # e.food[2]

\* The cases of a poison p for the agent a in its poison pass: overlapped,
\* or not overlapped and within the agent's poison detection radius.
Overlapped(a, p) ==
    /\ ~a.position.nan
    /\ SquaredDistance(a.position, p.position) < p.radius * p.radius
DetectedOnly(a, p) ==
    /\ ~a.position.nan
    /\ ~Overlapped(a, p)
    /\ SquaredDistance(a.position, p.position)
       < a.dna.poison_detection_radius * a.dna.poison_detection_radius

\* The agent a after one flee from each poison of list[1..i] that is
\* detected and not overlapped, in the order of the list.
RECURSIVE FledFrom(_, _, _)
FledFrom(a, list, i) ==
    IF i = 0 THEN a
    ELSE IF DetectedOnly(a, list[i])
         THEN flee(FledFrom(a, list, i - 1), list[i].position,
                   a.dna.poison_force_multiplier)
         ELSE FledFrom(a, list, i - 1)

\* C20: the poison pass of an agent leaves the poison list without every
\* overlapped poison and with all others in their order, reports a contact
\* exactly when a poison was overlapped, and leaves the agent with one
\* flee from each poison that is detected and not overlapped and nothing
\* else; a poison at the agent's position is overlapped, never fled from,
\* so the pass leaves no not-a-number force.
C20_PoisonPass ==
    \A e \in Entries :
        e.op = "poison" =>
            /\ e.result.poison =
                   SelectSeq(e.poison_before, LAMBDA p : ~Overlapped(e.before, p))
            /\ e.result.touched_poison <=>
                   \E j \in 1..Len(e.poison_before) : Overlapped(e.before, e.poison_before[j])
            /\ e.result.agent =
                   FledFrom(e.before, e.poison_before, Len(e.poison_before))
            /\ \A j \in 1..Len(e.poison_before) :
                   e.poison_before[j].radius > 0
            /\ ~e.before.position.nan =>
                   /\ \A j \in 1..Len(e.poison_before) :
                          e.poison_before[j].position = e.before.position
                              => Overlapped(e.before, e.poison_before[j])
                   /\ ~e.result.agent.acceleration.nan

\* A pass over three poisons: the first and the third overlapped, the
\* third exactly at the agent's position, the second detected; the second
\* alone is left, and the agent has a force on it.
C20_Witness ==
    \E e \in Entries :
        /\ e.op = "poison"
        /\ Len(e.poison_before) = 3
        /\ Overlapped(e.before, e.poison_before[1])
        /\ e.poison_before[1].position # e.before.position
        /\ DetectedOnly(e.before, e.poison_before[2])
        /\ e.poison_before[3].position = e.before.position
        /\ e.result.poison = << e.poison_before[2] >>
        /\ e.result.touched_poison
        /\ e.result.agent.acceleration # ZeroVec
        /\ poison = e.result.poison

\* C18: every live agent, and every newborn waiting to be appended, has
\* non-negative velocity, steer-force, arrive-threshold, detection-radius
\* and force-multiplier traits.
C18_TraitsNonNegative ==
    \A a \in { agents[i] : i \in 1..Len(agents) } \cup { newborns[i] : i \in 1..Len(newborns) } :
        \A t \in Traits \ {"hue"} : a.dna[t] >= 0

\* A tick has ended in which an agent whose own genome came out of mutate
\* had a child, and the child, two mutations from a random genome, is live.
C18_Witness ==
    /\ TickDone
    /\ \E e \in Entries :
           /\ e.born # << >>
           /\ e.before.dna \notin DnaRandom
           /\ e.born[1].dna # e.before.dna
           /\ e.born[1].id \in LiveIds
           /\ \A t \in Traits \ {"hue"} : Live(e.born[1].id).dna[t] > 0

====
